---- MODULE Spec2Model ----
(***************************************************************************)
(* Model of scripts/bundle-single-html.js: the bundler that merges the     *)
(* three generated report pages (index, movement-report, closing-remarks)  *)
(* into one standalone HTML artifact.                                      *)
(*                                                                         *)
(* Text is modelled by its structure.  A page is a record holding its      *)
(* module script (import lines, registerFile calls, define blocks) and the *)
(* elements of its <main>.  A cell id is the pair of its 8-hex base and    *)
(* the digit string of its -N suffix (empty when there is no suffix), so   *)
(* that parseInt and number formatting are computed, not assumed.          *)
(***************************************************************************)
EXTENDS Integers, Sequences, FiniteSets, TLC

\* ---------------------------------------------------------------- bounds
\* Largest number of define blocks in one page's script.
MaxCells == 2
\* Largest number of import statements and expressions in one .js module.
MaxImports == 2
\* Largest number of registerFile calls in one page's script.
MaxRegs == 2
\* Largest number of "path" references in the canonical page's script.
MaxPaths == 2

\* ------------------------------------------------------------ cell ids
Id(b, s) == [base |-> b, suf |-> s]

\* parseInt(digits, 10)
RECURSIVE ParseInt(_)
ParseInt(ds) ==
  IF ds = <<>> THEN 0
  ELSE 10 * ParseInt(SubSeq(ds, 1, Len(ds) - 1)) + ds[Len(ds)]

\* template-literal formatting of a non-negative number
RECURSIVE NumToString(_)
NumToString(n) ==
  IF n < 10 THEN <<n>> ELSE Append(NumToString(n \div 10), n % 10)

\* id.match(/^([0-9a-f]{8})-(\d+)$/)
SuffixMatch(id) == id.suf # <<>>

LOADER_ID == Id("bf5e5f37", <<>>)
PATCH_ID == Id("f12777a6", <<>>)

PAGE_FILES == <<"index.html", "movement-report.html", "closing-remarks.html">>

PAGE_OFFSETS == <<100, 0, 200>>

\* -------------------------------------------------- JavaScript Map values
\* A Map is the sequence of its entries in insertion order.
MapHas(m, k) == \E i \in 1..Len(m) : m[i].key = k
MapGet(m, k) == m[CHOOSE i \in 1..Len(m) : m[i].key = k].val
MapSet(m, k, v) ==
  IF MapHas(m, k)
  THEN [i \in 1..Len(m) |-> IF m[i].key = k THEN [key |-> k, val |-> v] ELSE m[i]]
  ELSE Append(m, [key |-> k, val |-> v])
MapValues(m) == [i \in 1..Len(m) |-> m[i].val]

\* ------------------------------------------------------------ inputs
\* A define block: its id field, whether the block is closed (its braces
\* return to depth zero and a ");" follows somewhere in the script), the
\* names of its outputs array, the number of `const name = orgName(...)`
\* statements in its body and the names of its returned object.
Cell(id, closed) ==
  [id |-> id, closed |-> closed, outputs |-> <<"periodLabel">>,
   nameDecls |-> 0, hasReturn |-> TRUE, ret |-> <<"periodLabel">>]

\* A content marker <!--:id:--> with the element around it: "block" is
\* <div class="observablehq observablehq--block">...</div>, "inline" is
\* any other wrapper.
Marker(id, wrap) == [kind |-> "cell", id |-> id, wrap |-> wrap]

RegisterFile(name, path) == [name |-> name, path |-> path]

\* The markers a generated page carries: one per cell, in cell order; w is
\* the wrapper of the loader cell's marker.
MarkersOf(cs, w) ==
  [i \in 1..Len(cs) |->
     Marker(cs[i].id, IF cs[i].id = LOADER_ID THEN w ELSE "block")]

RECURSIVE SeqsUpTo(_, _)
SeqsUpTo(S, n) ==
  IF n = 0 THEN {<<>>}
  ELSE LET shorter == SeqsUpTo(S, n - 1)
       IN  shorter \cup {Append(s, x) : s \in shorter, x \in S}

DistinctIds(cs) ==
  \A i, j \in 1..Len(cs) : i # j => cs[i].id # cs[j].id

\* The <link> elements of a generated page's head.
Link(rel, href, remote) == [rel |-> rel, href |-> href, remote |-> remote]

DefaultLinks ==
  <<Link("preload", "./_observablehq/theme.css", FALSE),
    Link("stylesheet", "https://fonts.googleapis.com/css2", TRUE),
    Link("stylesheet", "./_observablehq/theme.css", FALSE),
    Link("modulepreload", "./_observablehq/client.js", FALSE),
    Link("icon", "./_file/favicon.png", FALSE)>>

\* Values of MAPBOX_TOKEN, as the sequence of their pieces: unset (or
\* empty), a token of plain characters, and one that holds "$$".
NoToken == <<>>
TestToken == <<"pk.test">>
DollarToken == <<"pk.", "$$", "x">>

\* <script>window.__MAPBOX_TOKEN = "value";</script>
TokenScript(value) == [kind |-> "token", value |-> value]

\* The pages over a universe of cells: up to MaxCells cells with distinct
\* ids, one marker per cell, a fixed head (one stylesheet, one icon, no
\* classic script; headScripts lists the classic scripts that follow the
\* <head> tag, in order) and the page's registerFile calls.
PageHtml(cs, w, regs) ==
  [script |-> [imports |-> <<"import {define} from \"./_observablehq/client.js\";">>,
               regs |-> regs,
               cells |-> cs],
   hasModuleScript |-> TRUE,
   main |-> MarkersOf(cs, w),
   title |-> "page",
   links |-> DefaultLinks,
   sidebar |-> TRUE,
   headScripts |-> <<>>,
   header |-> FALSE]

PagesOver(U, wraps, regs) ==
  {PageHtml(cs, w, regs) :
     cs \in {s \in SeqsUpTo(U, MaxCells) : DistinctIds(s)}, w \in wraps}

A0 == Id("a1b2c3d4", <<>>)
A100 == Id("a1b2c3d4", <<1, 0, 0>>)

DefaultRegs ==
  <<RegisterFile("./data/summary.json", [kind |-> "local", file |-> "summary.json"])>>

\* Pages of the run specification: a well-formed cell, a malformed one, and
\* the patched metadata cell.
RunCells == {Cell(A0, TRUE), Cell(A0, FALSE), Cell(PATCH_ID, TRUE)}
RunPages == PagesOver(RunCells, {"block"}, DefaultRegs)

\* Pages of the merge specification: colliding ids and the loader cell.
MergeCells == {Cell(A0, TRUE), Cell(A100, TRUE), Cell(LOADER_ID, TRUE)}
MergeSidePages == PagesOver(MergeCells, {"block", "inline"}, DefaultRegs)
MergeCanonicalPages == PagesOver(MergeCells, {"block"}, DefaultRegs)

NoFile == [absent |-> TRUE]

\* An import of a module: kind is "static" (import ... from "spec") or
\* "dynamic" (import("spec")); the specifier is remote (http:, https:),
\* embedded (data:, blob:) or a path relative to the importing file.
Import(kind, scheme, target) ==
  [kind |-> kind, spec |-> [scheme |-> scheme, target |-> target]]

ClientJs == "./_observablehq/client.js"

Disk(data, modules) == [data |-> data, modules |-> modules]

\* modules: the imports of each .js file that exists, by path
DefaultModules == [m \in {ClientJs} |-> <<>>]

\* ------------------------------------------------------------ state
VARIABLES
  disk,             \* the other files of the input directory: the readable
                    \* data files and the JavaScript modules
  argv,             \* TRUE when --input-dir and --output are both given
  envToken,         \* process.env.MAPBOX_TOKEN (NoToken when unset)
  fs,               \* the three page files of the input directory
  pc,               \* position of the script
  exitCode,         \* -1 while running, then the process exit code
  pages,            \* pages[i].html
  remapTables,
  allRegisterFiles,
  allDefineBlocks,
  mergedScript,
  mains,            \* <<indexMain, movementMain, closingMain>>
  html,             \* the base document being built
  linkResult,       \* "none", "ok" or "failed": outcome of build()
  bundledScript,
  statted,          \* files tested with existsSync, in order
  reads,            \* files read with readFileSync, in order
  writes,           \* calls of writeFileSync(outputPath, ...)
  trace             \* steps completed so far, in order

vars == <<disk, argv, envToken, fs, pc, exitCode, pages, remapTables,
          allRegisterFiles, allDefineBlocks, mergedScript, mains, html,
          linkResult, bundledScript, statted, reads, writes, trace>>

NoHtml == [none |-> TRUE]

Fresh ==
  /\ pc = "args"
  /\ exitCode = -1
  /\ pages = <<>>
  /\ remapTables = <<>>
  /\ allRegisterFiles = <<>>
  /\ allDefineBlocks = <<>>
  /\ mergedScript = NoHtml
  /\ mains = <<>>
  /\ html = NoHtml
  /\ linkResult = "none"
  /\ bundledScript = NoHtml
  /\ statted = <<>>
  /\ reads = <<>>
  /\ writes = <<>>
  /\ trace = <<>>

Init ==
  /\ disk \in {Disk(d, DefaultModules) : d \in SUBSET {"summary.json"}}
  /\ argv \in BOOLEAN
  /\ envToken \in {NoToken, TestToken}
  /\ fs \in [1..3 -> RunPages \cup {NoFile}]
  /\ Fresh

\* process.exit(1)
Exit1 ==
  /\ pc' = "exited"
  /\ exitCode' = 1

\* ------------------------------------------------------------ CLI checks
CheckArgs ==
  /\ pc = "args"
  /\ IF ~argv
     THEN /\ Exit1
          /\ UNCHANGED trace
     ELSE /\ pc' = "token"
          /\ trace' = Append(trace, "args")
          /\ UNCHANGED exitCode
  /\ UNCHANGED <<disk, argv, envToken, fs, pages, remapTables, allRegisterFiles,
                 allDefineBlocks, mergedScript, mains, html, linkResult,
                 bundledScript, statted, reads, writes>>

\* CheckToken without the exit: the token is read but never tested.
CheckToken_Unchecked ==
  /\ pc = "token"
  /\ pc' = "pages"
  /\ trace' = Append(trace, "token")
  /\ UNCHANGED <<disk, argv, envToken, fs, exitCode, pages, remapTables,
                 allRegisterFiles, allDefineBlocks, mergedScript, mains, html,
                 linkResult, bundledScript, statted, reads, writes>>

CheckToken ==
  /\ pc = "token"
  /\ IF envToken = NoToken
     THEN /\ Exit1
          /\ UNCHANGED trace
     ELSE /\ pc' = "pages"
          /\ trace' = Append(trace, "token")
          /\ UNCHANGED exitCode
  /\ UNCHANGED <<disk, argv, envToken, fs, pages, remapTables, allRegisterFiles,
                 allDefineBlocks, mergedScript, mains, html, linkResult,
                 bundledScript, statted, reads, writes>>

\* The existsSync loop: the files tested up to and including the first
\* missing one.
FirstMissing ==
  IF \E i \in 1..3 : fs[i] = NoFile
  THEN CHOOSE i \in 1..3 : fs[i] = NoFile /\ \A j \in 1..(i - 1) : fs[j] # NoFile
  ELSE 0

\* CheckPages with the read moved into the existence loop: each page found
\* is read before the next one is tested.
CheckPages_ReadsAsItGoes ==
  /\ pc = "pages"
  /\ IF FirstMissing # 0
     THEN /\ statted' = SubSeq(PAGE_FILES, 1, FirstMissing)
          /\ reads' = reads \o SubSeq(PAGE_FILES, 1, FirstMissing - 1)
          /\ Exit1
          /\ UNCHANGED trace
     ELSE /\ statted' = PAGE_FILES
          /\ reads' = reads
          /\ pc' = "read"
          /\ trace' = Append(trace, "pages")
          /\ UNCHANGED exitCode
  /\ UNCHANGED <<disk, argv, envToken, fs, pages, remapTables, allRegisterFiles,
                 allDefineBlocks, mergedScript, mains, html, linkResult,
                 bundledScript, writes>>

CheckPages ==
  /\ pc = "pages"
  /\ IF FirstMissing # 0
     THEN /\ statted' = SubSeq(PAGE_FILES, 1, FirstMissing)
          /\ Exit1
          /\ UNCHANGED trace
     ELSE /\ statted' = PAGE_FILES
          /\ pc' = "read"
          /\ trace' = Append(trace, "pages")
          /\ UNCHANGED exitCode
  /\ UNCHANGED <<disk, argv, envToken, fs, pages, remapTables, allRegisterFiles,
                 allDefineBlocks, mergedScript, mains, html, linkResult,
                 bundledScript, reads, writes>>

ReadPages ==
  /\ pc = "read"
  /\ pages' = [i \in 1..3 |-> [name |-> PAGE_FILES[i], html |-> fs[i]]]
  /\ reads' = reads \o PAGE_FILES
  /\ pc' = "remap"
  /\ trace' = Append(trace, "read")
  /\ UNCHANGED <<disk, argv, envToken, fs, exitCode, remapTables, allRegisterFiles,
                 allDefineBlocks, mergedScript, mains, html, linkResult,
                 bundledScript, statted, writes>>

\* ------------------------------------------------ Steps 1-3: extraction
EmptyScript == [imports |-> <<>>, regs |-> <<>>, cells |-> <<>>]

\* html.match(scriptTagRe): the module script, "" when there is none
ExtractScript(h) == IF h.hasModuleScript THEN h.script ELSE EmptyScript

ExtractMain(h) == h.main

\* parseRegisterFiles: the first call of each name, in source order.
RECURSIVE ParseRegisterFilesFrom(_, _, _)
ParseRegisterFilesFrom(regs, i, files) ==
  IF i > Len(regs) THEN files
  ELSE ParseRegisterFilesFrom(regs, i + 1,
         IF MapHas(files, regs[i].name) THEN files
         ELSE MapSet(files, regs[i].name, regs[i]))

ParseRegisterFiles(script) == ParseRegisterFilesFrom(script.regs, 1, <<>>)

\* parseDefineBlocks: the scan stops (break) at the first define({ whose
\* closing ");" is not found; the blocks pushed before it are returned.
ParseDefineBlocks(script) ==
  LET cs == script.cells
      stop == IF \E i \in 1..Len(cs) : ~cs[i].closed
              THEN CHOOSE i \in 1..Len(cs) :
                     ~cs[i].closed /\ \A j \in 1..(i - 1) : cs[j].closed
              ELSE Len(cs) + 1
  IN  [i \in 1..(stop - 1) |-> [id |-> cs[i].id, block |-> cs[i]]]

\* ------------------------------------------- Step 4: collision remap tables
\* NewId ignoring the suffix an id already has.
NewId_DropsSuffix(id, offset) ==
  Id(id.base, NumToString(offset))

NewId(id, offset) ==
  IF SuffixMatch(id)
  THEN Id(id.base, NumToString(ParseInt(id.suf) + offset))
  ELSE Id(id.base, NumToString(offset))

\* RemapFrom entering only the ids the canonical page defines too.
RECURSIVE RemapFrom_CollidingOnly(_, _, _, _)
RemapFrom_CollidingOnly(defines, i, offset, remap) ==
  IF i > Len(defines) THEN remap
  ELSE RemapFrom_CollidingOnly(defines, i + 1, offset,
         IF defines[i].id = LOADER_ID
            \/ \A j \in 1..Len(pages[2].html.script.cells) :
                  pages[2].html.script.cells[j].id # defines[i].id
         THEN remap
         ELSE MapSet(remap, defines[i].id, NewId(defines[i].id, offset)))

RECURSIVE RemapFrom(_, _, _, _)
RemapFrom(defines, i, offset, remap) ==
  IF i > Len(defines) THEN remap
  ELSE RemapFrom(defines, i + 1, offset,
         IF defines[i].id = LOADER_ID THEN remap
         ELSE MapSet(remap, defines[i].id, NewId(defines[i].id, offset)))

BuildRemapTable(pageIndex) ==
  LET offset == PAGE_OFFSETS[pageIndex]
  IN  IF offset = 0 THEN <<>>
      ELSE RemapFrom(ParseDefineBlocks(ExtractScript(pages[pageIndex].html)),
                     1, offset, <<>>)

Step4BuildRemapTables ==
  /\ pc = "remap"
  /\ remapTables' = <<BuildRemapTable(1), <<>>, BuildRemapTable(3)>>
  /\ pc' = "regs"
  /\ trace' = Append(trace, "remap")
  /\ UNCHANGED <<disk, argv, envToken, fs, exitCode, pages, allRegisterFiles,
                 allDefineBlocks, mergedScript, mains, html, linkResult,
                 bundledScript, statted, reads, writes>>

\* --------------------------------------- Step 5: merge registerFile calls
\* The Step 5 inner loop without the has() test: a later page's call
\* replaces the one already kept.
RECURSIVE MergeFilesFrom_LastWins(_, _, _)
MergeFilesFrom_LastWins(files, i, all) ==
  IF i > Len(files) THEN all
  ELSE MergeFilesFrom_LastWins(files, i + 1,
         MapSet(all, files[i].key, files[i].val))

RECURSIVE MergeFilesFrom(_, _, _)
MergeFilesFrom(files, i, all) ==
  IF i > Len(files) THEN all
  ELSE MergeFilesFrom(files, i + 1,
         IF MapHas(all, files[i].key) THEN all
         ELSE MapSet(all, files[i].key, files[i].val))

\* The Step 5 outer loop visiting the base page first: movement-report,
\* index, closing-remarks.
RECURSIVE MergeRegisterFilesFrom_BaseFirst(_, _)
MergeRegisterFilesFrom_BaseFirst(p, all) ==
  IF p > Len(pages) THEN all
  ELSE MergeRegisterFilesFrom_BaseFirst(p + 1,
         MergeFilesFrom(
           ParseRegisterFiles(ExtractScript(pages[<<2, 1, 3>>[p]].html)), 1, all))

RECURSIVE MergeRegisterFilesFrom(_, _)
MergeRegisterFilesFrom(p, all) ==
  IF p > Len(pages) THEN all
  ELSE MergeRegisterFilesFrom(p + 1,
         MergeFilesFrom(ParseRegisterFiles(ExtractScript(pages[p].html)), 1, all))

Step5MergeRegisterFiles ==
  /\ pc = "regs"
  /\ allRegisterFiles' = MergeRegisterFilesFrom(1, <<>>)
  /\ pc' = "defines"
  /\ trace' = Append(trace, "regs")
  /\ UNCHANGED <<disk, argv, envToken, fs, exitCode, pages, remapTables,
                 allDefineBlocks, mergedScript, mains, html, linkResult,
                 bundledScript, statted, reads, writes>>

\* ------------------------------------------- Step 6: merge define blocks
\* Names of the model whose text contains the substring "name".
ContainsName == {"name", "orgName"}

\* The three replacements applied to cell f12777a6.
PatchOutputs(b) ==
  IF b.outputs = <<>> \/ \E i \in 1..Len(b.outputs) : b.outputs[i] = "name"
  THEN b
  ELSE [b EXCEPT !.outputs = Append(b.outputs, "name")]

PatchBody(b) ==
  IF b.hasReturn THEN [b EXCEPT !.nameDecls = b.nameDecls + 1] ELSE b

PatchReturn(b) ==
  IF ~b.hasReturn \/ b.ret = <<>>
     \/ \E i \in 1..Len(b.ret) : b.ret[i] \in ContainsName
  THEN b
  ELSE [b EXCEPT !.ret = Append(b.ret, "name")]

PatchCell(b) == PatchReturn(PatchBody(PatchOutputs(b)))

\* processedBlock.replace(`id: "${id}"`, `id: "${newId}"`)
ReplaceId(b, id, newId) == IF b.id = id THEN [b EXCEPT !.id = newId] ELSE b

SkipBlock(id, pageIdx) == id = LOADER_ID /\ pageIdx # 2

\* ProcessBlock applying the patch to every block.
ProcessBlock_PatchesAll(pageIdx, d, remap) ==
  LET patched == PatchCell(d.block)
      remapped == IF MapHas(remap, d.id)
                  THEN ReplaceId(patched, d.id, MapGet(remap, d.id))
                  ELSE patched
  IN  [text |-> remapped, page |-> pageIdx, orig |-> d.id]

\* ProcessBlock looking every page's ids up in the index table.
ProcessBlock_IndexTable(pageIdx, d, remap) ==
  LET patched == IF d.id = PATCH_ID THEN PatchCell(d.block) ELSE d.block
      remapped == IF MapHas(remapTables[1], d.id)
                  THEN ReplaceId(patched, d.id, MapGet(remapTables[1], d.id))
                  ELSE patched
  IN  [text |-> remapped, page |-> pageIdx, orig |-> d.id]

\* One iteration of the inner loop for a block that is not skipped.  The
\* pushed string is `text`; `page` and `orig` record which iteration
\* pushed it.
ProcessBlock(pageIdx, d, remap) ==
  LET patched == IF d.id = PATCH_ID THEN PatchCell(d.block) ELSE d.block
      remapped == IF MapHas(remap, d.id)
                  THEN ReplaceId(patched, d.id, MapGet(remap, d.id))
                  ELSE patched
  IN  [text |-> remapped, page |-> pageIdx, orig |-> d.id]

RECURSIVE MergeDefinesFrom(_, _, _, _)
MergeDefinesFrom(pageIdx, defines, i, all) ==
  IF i > Len(defines) THEN all
  ELSE MergeDefinesFrom(pageIdx, defines, i + 1,
         IF SkipBlock(defines[i].id, pageIdx) THEN all
         ELSE Append(all, ProcessBlock(pageIdx, defines[i], remapTables[pageIdx])))

RECURSIVE MergeDefineBlocksFrom(_, _)
MergeDefineBlocksFrom(pageIdx, all) ==
  IF pageIdx > Len(pages) THEN all
  ELSE MergeDefineBlocksFrom(pageIdx + 1,
         MergeDefinesFrom(pageIdx,
           ParseDefineBlocks(ExtractScript(pages[pageIdx].html)), 1, all))

Step6MergeDefineBlocks ==
  /\ pc = "defines"
  /\ allDefineBlocks' = MergeDefineBlocksFrom(1, <<>>)
  /\ pc' = "script"
  /\ trace' = Append(trace, "defines")
  /\ UNCHANGED <<disk, argv, envToken, fs, exitCode, pages, remapTables,
                 allRegisterFiles, mergedScript, mains, html, linkResult,
                 bundledScript, statted, reads, writes>>

\* ----------------------------------------- Step 7: assemble merged script
\* Step 7 collecting the import lines of all three pages.
Step7AssembleScript_AllImports ==
  /\ pc = "script"
  /\ mergedScript' =
       [imports |-> ExtractScript(pages[1].html).imports
                      \o ExtractScript(pages[2].html).imports
                      \o ExtractScript(pages[3].html).imports,
        regs |-> MapValues(allRegisterFiles),
        cells |-> [i \in 1..Len(allDefineBlocks) |-> allDefineBlocks[i].text]]
  /\ pc' = "main"
  /\ trace' = Append(trace, "script")
  /\ UNCHANGED <<disk, argv, envToken, fs, exitCode, pages, remapTables,
                 allRegisterFiles, allDefineBlocks, mains, html,
                 linkResult, bundledScript, statted, reads, writes>>

Step7AssembleScript ==
  /\ pc = "script"
  /\ mergedScript' =
       [imports |-> ExtractScript(pages[2].html).imports,
        regs |-> MapValues(allRegisterFiles),
        cells |-> [i \in 1..Len(allDefineBlocks) |-> allDefineBlocks[i].text]]
  /\ pc' = "main"
  /\ trace' = Append(trace, "script")
  /\ UNCHANGED <<disk, argv, envToken, fs, exitCode, pages, remapTables,
                 allRegisterFiles, allDefineBlocks, mains, html, linkResult,
                 bundledScript, statted, reads, writes>>

\* -------------------------------------------- Step 8: merge <main> content
\* result.replaceAll(`<!--:${oldId}:-->`, `<!--:${newId}:-->`)
ReplaceAllMarkers(h, oldId, newId) ==
  [i \in 1..Len(h) |->
     IF h[i].kind = "cell" /\ h[i].id = oldId
     THEN [h[i] EXCEPT !.id = newId]
     ELSE h[i]]

RECURSIVE RemapHtmlFrom(_, _, _)
RemapHtmlFrom(h, remap, i) ==
  IF i > Len(remap) THEN h
  ELSE RemapHtmlFrom(ReplaceAllMarkers(h, remap[i].key, remap[i].val), remap, i + 1)

RemapHtmlCellIds(h, remap) == RemapHtmlFrom(h, remap, 1)

IsDataCellBlock(e) == e.kind = "cell" /\ e.wrap = "block" /\ e.id = LOADER_ID

RemoveDataCellBlock(h) == SelectSeq(h, LAMBDA e : ~IsDataCellBlock(e))

RemoveToc(h) == SelectSeq(h, LAMBDA e : e.kind # "toc")

IndexMain ==
  RemoveDataCellBlock(RemapHtmlCellIds(ExtractMain(pages[1].html), remapTables[1]))

\* movementMain given the cleanup of closingMain, with the index table.
MovementMain_Cleaned ==
  RemoveToc(RemoveDataCellBlock(
    RemapHtmlCellIds(ExtractMain(pages[2].html), remapTables[1])))

MovementMain == ExtractMain(pages[2].html)

ClosingMain ==
  RemoveToc(RemoveDataCellBlock(
    RemapHtmlCellIds(ExtractMain(pages[3].html), remapTables[3])))

Step8MergeMain ==
  /\ pc = "main"
  /\ mains' = <<IndexMain, MovementMain, ClosingMain>>
  /\ pc' = "base"
  /\ trace' = Append(trace, "main")
  /\ UNCHANGED <<disk, argv, envToken, fs, exitCode, pages, remapTables,
                 allRegisterFiles, allDefineBlocks, mergedScript, html,
                 linkResult, bundledScript, statted, reads, writes>>

\* <!-- ═══ title ═══ --> and <hr class="page-break">
Section(title) == [kind |-> "section", title |-> title]
PageBreak == [kind |-> "hr"]

\* The merged <main> with the canonical section first.
MergedMain_CanonicalFirst ==
  <<Section("Executive Summary")>> \o mains[2]
    \o <<PageBreak, Section("Movement Insights")>> \o mains[1]
    \o <<PageBreak, Section("Closing Remarks")>> \o mains[3]

\* The merged <main>: the three sections in order.
MergedMain ==
  <<Section("Executive Summary")>> \o mains[1]
    \o <<PageBreak, Section("Movement Insights")>> \o mains[2]
    \o <<PageBreak, Section("Closing Remarks")>> \o mains[3]

\* ------------------------------- Step 9: base HTML from movement-report
Step9BuildBase ==
  /\ pc = "base"
  /\ html' = [pages[2].html EXCEPT
                !.title = "Movement Intelligence Report | Rhevia",
                !.script = IF pages[2].html.hasModuleScript
                           THEN mergedScript ELSE @,
                !.main = MergedMain,
                !.sidebar = FALSE]
  /\ pc' = "css"
  /\ trace' = Append(trace, "base")
  /\ UNCHANGED <<disk, argv, envToken, fs, exitCode, pages, remapTables,
                 allRegisterFiles, allDefineBlocks, mergedScript, mains,
                 linkResult, bundledScript, statted, reads, writes>>

\* -------------------------------------------------- Step 10: inline CSS
Hrefs(links) == [i \in 1..Len(links) |-> links[i].href]

LocalLinks(links, rel) ==
  SelectSeq(links, LAMBDA l : l.rel = rel /\ ~l.remote)

\* readable: the files the read succeeds on
InlineCss(links, readable) ==
  [i \in 1..Len(links) |->
     IF links[i].rel = "stylesheet" /\ ~links[i].remote
        /\ links[i].href \in readable
     THEN [links[i] EXCEPT !.rel = "style"]
     ELSE links[i]]

Step10InlineCss ==
  /\ pc = "css"
  /\ \E readable \in SUBSET {l.href : l \in {html.links[i] : i \in 1..Len(html.links)}} :
       /\ html' = [html EXCEPT !.links = InlineCss(html.links, readable)]
       /\ reads' = reads \o Hrefs(LocalLinks(html.links, "stylesheet"))
  /\ pc' = "preload"
  /\ trace' = Append(trace, "css")
  /\ UNCHANGED <<disk, argv, envToken, fs, exitCode, pages, remapTables,
                 allRegisterFiles, allDefineBlocks, mergedScript, mains,
                 linkResult, bundledScript, statted, writes>>

\* ------------------------- Step 11: remove preload / modulepreload hints
Step11RemovePreloads ==
  /\ pc = "preload"
  /\ html' = [html EXCEPT !.links =
                SelectSeq(html.links,
                  LAMBDA l : ~(l.rel = "preload" /\ ~l.remote)
                             /\ l.rel # "modulepreload")]
  /\ pc' = "icon"
  /\ trace' = Append(trace, "preload")
  /\ UNCHANGED <<disk, argv, envToken, fs, exitCode, pages, remapTables,
                 allRegisterFiles, allDefineBlocks, mergedScript, mains,
                 linkResult, bundledScript, statted, reads, writes>>

\* ----------------------------------------------- Step 12: inline favicon
InlineIcon(links, readable) ==
  [i \in 1..Len(links) |->
     IF links[i].rel = "icon" /\ links[i].href \in readable
     THEN [links[i] EXCEPT !.href = "data:", !.remote = FALSE]
     ELSE links[i]]

Step12InlineFavicon ==
  /\ pc = "icon"
  /\ \E readable \in SUBSET {l.href : l \in {html.links[i] : i \in 1..Len(html.links)}} :
       /\ html' = [html EXCEPT !.links = InlineIcon(html.links, readable)]
       /\ reads' = reads \o Hrefs(SelectSeq(html.links, LAMBDA l : l.rel = "icon"))
  /\ pc' = "inline"
  /\ trace' = Append(trace, "icon")
  /\ UNCHANGED <<disk, argv, envToken, fs, exitCode, pages, remapTables,
                 allRegisterFiles, allDefineBlocks, mergedScript, mains,
                 linkResult, bundledScript, statted, writes>>

\* ------------------------------ Step 13: inline FileAttachment data
\* /"path"\s*:\s*"([^"]+\.json)"/g matches a path literal that ends in
\* .json: a local path or a remote URL, never a data: payload.
PathMatches(path) == path.kind \in {"local", "remote"}

\* InlineData without the data: test and with a pattern that also matches
\* an embedded payload: a payload is encoded once more.
InlineData_Reencodes(regs, readable) ==
  [i \in 1..Len(regs) |->
     IF regs[i].path.kind = "data"
     THEN [regs[i] EXCEPT !.path = [kind |-> "data", file |-> "data:", of |-> @]]
     ELSE IF regs[i].path.file \in readable
     THEN [regs[i] EXCEPT !.path = [kind |-> "data", file |-> regs[i].path.file]]
     ELSE regs[i]]

InlineData(regs, readable) ==
  [i \in 1..Len(regs) |->
     IF PathMatches(regs[i].path) /\ regs[i].path.file \in readable
     THEN [regs[i] EXCEPT !.path = [kind |-> "data", file |-> regs[i].path.file]]
     ELSE regs[i]]

PathFiles(regs) ==
  LET m == SelectSeq(regs, LAMBDA r : PathMatches(r.path))
  IN  [i \in 1..Len(m) |-> m[i].path.file]

\* Step 13 with an unreadable data file treated as fatal.
Step13InlineData_Fatal ==
  /\ pc = "inline"
  /\ IF \E i \in 1..Len(html.script.regs) :
          /\ PathMatches(html.script.regs[i].path)
          /\ html.script.regs[i].path.file \notin disk.data
     THEN /\ Exit1
          /\ UNCHANGED <<html, trace>>
          /\ reads' = reads \o PathFiles(html.script.regs)
     ELSE /\ html' = [html EXCEPT !.script.regs = InlineData(@, disk.data)]
          /\ reads' = reads \o PathFiles(html.script.regs)
          /\ pc' = "extract"
          /\ trace' = Append(trace, "inline")
          /\ UNCHANGED exitCode
  /\ UNCHANGED <<disk, argv, envToken, fs, pages, remapTables,
                 allRegisterFiles, allDefineBlocks, mergedScript, mains,
                 linkResult, bundledScript, statted, writes>>

Step13InlineData ==
  /\ pc = "inline"
  /\ IF html.hasModuleScript
     THEN /\ html' = [html EXCEPT !.script.regs = InlineData(@, disk.data)]
          /\ reads' = reads \o PathFiles(html.script.regs)
     ELSE UNCHANGED <<html, reads>>
  /\ pc' = "extract"
  /\ trace' = Append(trace, "inline")
  /\ UNCHANGED <<disk, argv, envToken, fs, exitCode, pages, remapTables,
                 allRegisterFiles, allDefineBlocks, mergedScript, mains,
                 linkResult, bundledScript, statted, writes>>

\* ------------------------------ Step 14: extract the script for esbuild
\* Step 14 without the test of the match.
Step14ExtractFinalScript_Unchecked ==
  /\ pc = "extract"
  /\ pc' = "bundle"
  /\ trace' = Append(trace, "extract")
  /\ UNCHANGED <<disk, argv, envToken, fs, exitCode, pages, remapTables,
                 allRegisterFiles, allDefineBlocks, mergedScript, mains, html,
                 linkResult, bundledScript, statted, reads, writes>>

Step14ExtractFinalScript ==
  /\ pc = "extract"
  /\ IF ~html.hasModuleScript
     THEN /\ Exit1
          /\ UNCHANGED trace
     ELSE /\ pc' = "bundle"
          /\ trace' = Append(trace, "extract")
          /\ UNCHANGED exitCode
  /\ UNCHANGED <<disk, argv, envToken, fs, pages, remapTables, allRegisterFiles,
                 allDefineBlocks, mergedScript, mains, html, linkResult,
                 bundledScript, statted, reads, writes>>

\* ------------------------------------------ Step 15: bundle with esbuild
ImportLine == "import {define} from \"./_observablehq/client.js\";"

\* the import statement of an import line of the module script
ImportOfLine(line) ==
  IF line = ImportLine THEN Import("static", "local", ClientJs)
  ELSE Import("static", "local", line)

StdinImports(script) ==
  [i \in 1..Len(script.imports) |-> ImportOfLine(script.imports[i])]

\* /^(https?:|data:|blob:)/.test(specifier)
IsRemoteOrEmbedded(spec) == spec.scheme \in {"http", "https", "data", "blob"}

\* existsSync(resolve(fileDir, specifier))
ExistsLocal(spec) == spec.target \in DOMAIN disk.modules

\* The replace callback treating every specifier as a local path.
RewriteDynamic_NoSchemeTest(imp) ==
  IF imp.kind # "dynamic" THEN imp
  ELSE IF ExistsLocal(imp.spec) THEN [imp EXCEPT !.kind = "resolved"]
  ELSE [imp EXCEPT !.kind = "empty"]

\* The replace callback of the onLoad plugin on one import expression:
\* "resolved" is Promise.resolve(__dyn_n), "empty" is Promise.resolve({}).
RewriteDynamic(imp) ==
  IF imp.kind # "dynamic" \/ IsRemoteOrEmbedded(imp.spec) THEN imp
  ELSE IF ExistsLocal(imp.spec) THEN [imp EXCEPT !.kind = "resolved"]
  ELSE [imp EXCEPT !.kind = "empty"]

\* onLoad: the contents handed to esbuild for a .js file; the static
\* imports of the converted specifiers are put first.
OnLoad(path) ==
  LET rewritten == [i \in 1..Len(disk.modules[path]) |->
                      RewriteDynamic(disk.modules[path][i])]
      \* `__dyn_${counter++}`
      counter(i) == Cardinality({j \in 1..(i - 1) : rewritten[j].kind = "resolved"})
      contents == [i \in 1..Len(rewritten) |->
                     IF rewritten[i].kind = "resolved"
                     THEN [kind |-> "resolved", spec |-> rewritten[i].spec,
                           id |-> counter(i)]
                     ELSE rewritten[i]]
      dyn == SelectSeq(contents, LAMBDA imp : imp.kind = "resolved")
      statics == [i \in 1..Len(dyn) |-> [dyn[i] EXCEPT !.kind = "static"]]
  IN  statics \o contents

\* esbuild follows the static imports of local files (bundle: true).
LocalStaticTargets(imports) ==
  {imports[i].spec.target : i \in {j \in 1..Len(imports) :
      imports[j].kind = "static" /\ ~IsRemoteOrEmbedded(imports[j].spec)}}

RECURSIVE LoadedFrom(_)
LoadedFrom(S) ==
  LET more == S \cup {t \in UNION {LocalStaticTargets(OnLoad(m)) : m \in S} :
                        t \in DOMAIN disk.modules}
  IN  IF more = S THEN S ELSE LoadedFrom(more)

\* the .js files esbuild loads for the merged script
LoadedModules(script) ==
  LoadedFrom({t \in LocalStaticTargets(StdinImports(script)) :
                t \in DOMAIN disk.modules})

\* esbuild reports "Could not resolve" for a static import of a local file
\* that does not exist.
Unresolved(script) ==
  \/ \E t \in LocalStaticTargets(StdinImports(script)) : t \notin DOMAIN disk.modules
  \/ \E m \in LoadedModules(script) :
       \E t \in LocalStaticTargets(OnLoad(m)) : t \notin DOMAIN disk.modules

\* try { result = await build(...) }: the call returns the flattened script
BuildResolved ==
  /\ ~Unresolved(html.script)
  /\ linkResult' = "ok"
  /\ bundledScript' = [bundled |-> TRUE, source |-> html.script,
                       linked |-> [m \in LoadedModules(html.script) |-> OnLoad(m)]]
  /\ pc' = "reassemble"
  /\ trace' = Append(trace, "bundle")
  /\ UNCHANGED exitCode

\* The catch block without process.exit: the script goes on.
BuildRejected_NoExit ==
  /\ linkResult' = "failed"
  /\ pc' = "reassemble"
  /\ UNCHANGED <<exitCode, bundledScript, trace>>

\* The catch block ending the process with code 0.
BuildRejected_ExitZero ==
  /\ linkResult' = "failed"
  /\ pc' = "exited"
  /\ exitCode' = 0
  /\ UNCHANGED <<bundledScript, trace>>

\* catch (err) { console.error(...); process.exit(1); }
BuildRejected ==
  /\ linkResult' = "failed"
  /\ Exit1
  /\ UNCHANGED <<bundledScript, trace>>

Step15Bundle ==
  /\ pc = "bundle"
  /\ \/ BuildResolved
     \/ BuildRejected
  /\ UNCHANGED <<disk, argv, envToken, fs, pages, remapTables, allRegisterFiles,
                 allDefineBlocks, mergedScript, mains, html, statted, reads,
                 writes>>

\* ------------------------------------------- Step 16: reassemble the HTML
\* String.prototype.replace with a string as replacement: "$$" in it
\* stands for one "$".
ReplacementText(text) ==
  [i \in 1..Len(text) |-> IF text[i] = "$$" THEN "$" ELSE text[i]]

Step16Reassemble ==
  /\ pc = "reassemble"
  /\ html' = [html EXCEPT !.script = bundledScript,
                          !.headScripts =
                            <<TokenScript(ReplacementText(envToken))>> \o @,
                          !.header = TRUE]
  /\ pc' = "write"
  /\ trace' = Append(trace, "reassemble")
  /\ UNCHANGED <<disk, argv, envToken, fs, exitCode, pages, remapTables,
                 allRegisterFiles, allDefineBlocks, mergedScript, mains,
                 linkResult, bundledScript, statted, reads, writes>>

\* ------------------------------------------------- Step 17: write output
Step17WriteOutput ==
  /\ pc = "write"
  /\ writes' = Append(writes, html)
  /\ pc' = "done"
  /\ exitCode' = 0
  /\ trace' = Append(trace, "write")
  /\ UNCHANGED <<disk, argv, envToken, fs, pages, remapTables, allRegisterFiles,
                 allDefineBlocks, mergedScript, mains, html, linkResult,
                 bundledScript, statted, reads>>

MergeNext ==
  \/ Step4BuildRemapTables
  \/ Step5MergeRegisterFiles
  \/ Step6MergeDefineBlocks
  \/ Step7AssembleScript
  \/ Step8MergeMain

Next ==
  \/ CheckArgs
  \/ CheckToken
  \/ CheckPages
  \/ ReadPages
  \/ MergeNext
  \/ Step9BuildBase
  \/ Step10InlineCss
  \/ Step11RemovePreloads
  \/ Step12InlineFavicon
  \/ Step13InlineData
  \/ Step14ExtractFinalScript
  \/ Step15Bundle
  \/ Step16Reassemble
  \/ Step17WriteOutput

Spec == Init /\ [][Next]_vars

\* The merge steps on their own, from the state the script is in once the
\* three pages have been read.
PagesRead ==
  /\ disk = Disk({"summary.json"}, DefaultModules)
  /\ argv = TRUE
  /\ envToken = TestToken
  /\ pc = "remap"
  /\ exitCode = -1
  /\ pages = [i \in 1..3 |-> [name |-> PAGE_FILES[i], html |-> fs[i]]]
  /\ remapTables = <<>>
  /\ allRegisterFiles = <<>>
  /\ allDefineBlocks = <<>>
  /\ mergedScript = NoHtml
  /\ mains = <<>>
  /\ html = NoHtml
  /\ linkResult = "none"
  /\ bundledScript = NoHtml
  /\ statted = PAGE_FILES
  /\ reads = PAGE_FILES
  /\ writes = <<>>
  /\ trace = <<"args", "token", "pages", "read">>

InitMerge ==
  /\ fs \in {f \in [1..3 -> MergeSidePages] : f[2] \in MergeCanonicalPages}
  /\ PagesRead

SpecMerge == InitMerge /\ [][MergeNext]_vars

\* Whole runs over the module graphs of the input directory: client.js
\* (imported by the merged script) and lib.js may exist or not, and import
\* a CDN module, lib.js or a file that does not exist.
LibJs == "./lib.js"
MissingJs == "./missing.js"

ImportChoices ==
  {Import(k, "https", "https://cdn.example/mod.js") : k \in {"static", "dynamic"}}
  \cup {Import("dynamic", "data", "data:text/javascript,export default 1")}
  \cup {Import(k, "local", t) : k \in {"static", "dynamic"}, t \in {LibJs, MissingJs}}

LibChoices ==
  {<<>>, <<Import("dynamic", "local", MissingJs)>>,
   <<Import("static", "local", MissingJs)>>}

ModuleGraphs ==
  UNION {{g \in [D -> SeqsUpTo(ImportChoices, MaxImports)] :
            \A m \in D : m = LibJs => g[m] \in LibChoices} :
         D \in SUBSET {ClientJs, LibJs}}

LinkPage == PageHtml(<<Cell(A0, TRUE)>>, "block", DefaultRegs)

InitLink ==
  /\ disk \in {Disk({"summary.json"}, g) : g \in ModuleGraphs}
  /\ argv \in BOOLEAN
  /\ envToken \in {NoToken, TestToken}
  /\ fs \in [1..3 -> {LinkPage, NoFile}]
  /\ Fresh

SpecLink == InitLink /\ [][Next]_vars

\* The merge steps over pages that register the same asset names: the call
\* at position i of page p has its own metadata, so no two calls have the
\* same text.
AssetNames == {"./data/summary.json", "./data/tracks.json"}

RegisterFileCall(name, p, i) ==
  [name |-> name, path |-> [kind |-> "local", file |-> name],
   lastModified |-> 10 * p + i]

AssetPages(p) ==
  {PageHtml(<<>>, "block", [i \in 1..Len(ns) |-> RegisterFileCall(ns[i], p, i)]) :
     ns \in SeqsUpTo(AssetNames, MaxRegs)}

InitAssets ==
  /\ fs \in {f \in [1..3 -> UNION {AssetPages(p) : p \in 1..3}] :
               \A p \in 1..3 : f[p] \in AssetPages(p)}
  /\ PagesRead

SpecAssets == InitAssets /\ [][MergeNext]_vars

\* Whole runs over the "path" references of the canonical page: local data
\* files that can or cannot be read, a remote URL and a payload that is
\* already embedded.
DataPath(kind, file) ==
  RegisterFile(file, [kind |-> kind, file |-> file])

RemoteJson == "https://cdn.example/zones.json"

PathChoices ==
  {DataPath("local", "tracks.json"), DataPath("local", "heatmap.json"),
   DataPath("remote", RemoteJson), DataPath("data", "embedded")}

InlineSidePage == PageHtml(<<>>, "block", DefaultRegs)

InlineCanonicalPages ==
  {PageHtml(<<>>, "block", regs) : regs \in SeqsUpTo(PathChoices, MaxPaths)}

InitInline ==
  /\ disk \in {Disk(d, DefaultModules) :
                 d \in SUBSET {"summary.json", "tracks.json", "heatmap.json", RemoteJson}}
  /\ argv \in BOOLEAN
  /\ envToken \in {NoToken, TestToken}
  /\ fs \in {f \in [1..3 -> InlineCanonicalPages \cup {InlineSidePage, NoFile}] :
               /\ f[1] \in {InlineSidePage, NoFile}
               /\ f[2] \in InlineCanonicalPages \cup {NoFile}
               /\ f[3] \in {InlineSidePage, NoFile}}
  /\ Fresh

SpecInline == InitInline /\ [][Next]_vars

\* The merge steps over ids with and without a numeric suffix, with a
\* leading zero, and the loader id.
A1 == Id("a1b2c3d4", <<1>>)
A01 == Id("a1b2c3d4", <<0, 1>>)

RemapSideCells ==
  {Cell(A0, TRUE), Cell(A1, TRUE), Cell(A01, TRUE), Cell(A100, TRUE),
   Cell(LOADER_ID, TRUE)}
RemapSidePages == PagesOver(RemapSideCells, {"block"}, DefaultRegs)
RemapCanonicalPages ==
  PagesOver({Cell(A0, TRUE), Cell(A1, TRUE)}, {"block"}, DefaultRegs)

InitRemap ==
  /\ fs \in {f \in [1..3 -> RemapSidePages \cup RemapCanonicalPages] :
               /\ f[1] \in RemapSidePages
               /\ f[2] \in RemapCanonicalPages
               /\ f[3] \in RemapSidePages}
  /\ PagesRead

SpecRemap == InitRemap /\ [][MergeNext]_vars

\* The merge steps over the shapes of cell f12777a6: as generated, already
\* carrying the name output, without a return statement, and without an
\* outputs array.
PatchedCell ==
  [Cell(PATCH_ID, TRUE) EXCEPT !.outputs = <<"periodLabel", "name">>,
                               !.nameDecls = 1,
                               !.ret = <<"periodLabel", "name">>]

NoReturnCell == [Cell(PATCH_ID, TRUE) EXCEPT !.hasReturn = FALSE, !.ret = <<>>]

NoOutputsCell == [Cell(PATCH_ID, TRUE) EXCEPT !.outputs = <<>>]

PatchCells ==
  {Cell(A0, TRUE), Cell(PATCH_ID, TRUE), PatchedCell, NoReturnCell, NoOutputsCell}

PatchPages == PagesOver(PatchCells, {"block"}, DefaultRegs)

InitPatch ==
  /\ fs \in [1..3 -> PatchPages]
  /\ PagesRead

SpecPatch == InitPatch /\ [][MergeNext]_vars

\* Whole runs over the canonical documents used as the base: with or
\* without a module script, with or without a classic script put in the
\* head by the site configuration.
ConfigScript == [kind |-> "inline", value |-> "config"]

BaseSidePage == PageHtml(<<Cell(A0, TRUE)>>, "block", DefaultRegs)

BaseCanonicalPages ==
  {[PageHtml(<<Cell(A0, TRUE)>>, "block", DefaultRegs) EXCEPT
      !.hasModuleScript = m, !.headScripts = hs] :
     m \in BOOLEAN, hs \in {<<>>, <<ConfigScript>>}}

InitBase ==
  /\ disk \in {Disk(d, DefaultModules) : d \in SUBSET {"summary.json"}}
  /\ argv \in BOOLEAN
  /\ envToken \in {NoToken, TestToken, DollarToken}
  /\ fs \in {f \in [1..3 -> BaseCanonicalPages \cup {BaseSidePage, NoFile}] :
               /\ f[1] \in {BaseSidePage, NoFile}
               /\ f[2] \in BaseCanonicalPages \cup {NoFile}
               /\ f[3] \in {BaseSidePage, NoFile}}
  /\ Fresh

SpecBase == InitBase /\ [][Next]_vars

\* The operations each step invokes, in call order, with the stage of the
\* pipeline an operation belongs to: 1 extraction, 2 collision
\* resolution, 3 patching, 4 merge assembly, 5 asset inlining, 6 static
\* linking, 7 secret injection.
Call(op, stage) == [op |-> op, stage |-> stage]

ExtractionCalls == <<Call("extractScript", 1), Call("parseDefineBlocks", 1)>>

CallsOf(step) ==
  CASE step = "remap" ->
         <<Call("extractScript", 1)>>
           \o <<Call("buildRemapTable", 2)>> \o ExtractionCalls
           \o <<Call("buildRemapTable", 2)>> \o ExtractionCalls
    [] step = "regs" ->
         <<Call("extractScript", 1), Call("parseRegisterFiles", 1),
           Call("extractScript", 1), Call("parseRegisterFiles", 1),
           Call("extractScript", 1), Call("parseRegisterFiles", 1),
           Call("mergeRegisterFiles", 4)>>
    [] step = "defines" ->
         ExtractionCalls \o <<Call("mergeDefineBlocks", 4)>>
           \o ExtractionCalls \o <<Call("mergeDefineBlocks", 4)>>
           \o ExtractionCalls \o <<Call("mergeDefineBlocks", 4)>>
    [] step = "script" -> <<Call("mergedScript", 4)>>
    [] step = "main" ->
         <<Call("extractMain", 1), Call("remapHtmlCellIds", 2),
           Call("extractMain", 1),
           Call("extractMain", 1), Call("remapHtmlCellIds", 2),
           Call("mergedMain", 4)>>
    [] step = "base" -> <<Call("mergeBase", 4)>>
    [] step \in {"css", "preload", "icon", "inline"} -> <<Call("inline", 5)>>
    [] step = "extract" -> <<Call("scriptTagRe", 1)>>
    [] step = "bundle" -> <<Call("build", 6)>>
    [] step = "reassemble" -> <<Call("injectToken", 7)>>
    [] OTHER -> <<>>

RECURSIVE CallsFrom(_)
CallsFrom(i) ==
  IF i > Len(trace) THEN <<>> ELSE CallsOf(trace[i]) \o CallsFrom(i + 1)

\* the operations invoked so far
Calls == CallsFrom(1)

\* The merge steps over pages whose scripts carry different import lines.
ImportLines ==
  {"import {define} from \"./_observablehq/client.js\";",
   "import {registerFile} from \"./_observablehq/stdlib.js\";",
   "import * as d3 from \"./_npm/d3/index.js\";"}

ImportPages ==
  {[PageHtml(<<Cell(A0, TRUE)>>, "block", DefaultRegs) EXCEPT !.script.imports = ls] :
     ls \in SeqsUpTo(ImportLines, MaxImports)}

InitImports ==
  /\ fs \in [1..3 -> ImportPages]
  /\ PagesRead

SpecImports == InitImports /\ [][MergeNext]_vars

\* The merge steps over content trees that hold cell markers, the loader
\* placeholder and an on-page table of contents.
Toc == [kind |-> "toc"]

ContentPages ==
  {[PageHtml(cs, "block", DefaultRegs) EXCEPT
      !.main = (IF toc THEN <<Toc>> ELSE <<>>) \o @] :
     cs \in {c \in SeqsUpTo({Cell(A0, TRUE), Cell(LOADER_ID, TRUE)}, MaxCells) :
               DistinctIds(c)},
     toc \in BOOLEAN}

InitContent ==
  /\ fs \in [1..3 -> ContentPages]
  /\ PagesRead

SpecContent == InitContent /\ [][MergeNext]_vars

\* ================================================================ claims
Completed(step) == \E i \in 1..Len(trace) : trace[i] = step

Present(p) == fs[p] # NoFile

\* ids of the define blocks extracted from page p
ExtractedIds(p) ==
  LET ds == ParseDefineBlocks(ExtractScript(pages[p].html))
  IN  [i \in 1..Len(ds) |-> ds[i].id]

\* the blocks pushed while page p was being merged
BlocksOf(p) == SelectSeq(allDefineBlocks, LAMBDA b : b.page = p)

EmittedIds(bs) == [i \in 1..Len(bs) |-> bs[i].text.id]

HasMarker(h, id) == \E k \in 1..Len(h) : h[k].kind = "cell" /\ h[k].id = id

\* C1: once the define blocks are merged, the ids of the merged cell block
\* are pairwise distinct (ids are unique within each input page and have
\* the form 8 hex characters with an optional -N suffix).
C1_MergedIdsDistinct ==
  Completed("defines") =>
    \A i, j \in 1..Len(allDefineBlocks) :
      i # j => allDefineBlocks[i].text.id # allDefineBlocks[j].text.id

\* C2: once the content is merged, every marker of the merged content tree
\* references the id of some cell definition of the merged cell block
\* (every input marker references a cell of its own page).
C2_NoDanglingMarker ==
  Completed("main") =>
    \A k \in 1..Len(MergedMain) :
      MergedMain[k].kind = "cell" =>
        \E i \in 1..Len(allDefineBlocks) :
          allDefineBlocks[i].text.id = MergedMain[k].id

\* The markers of page p that survive the removal of the loader placeholder
\* and of the table of contents, before any id rewrite.
KeptInput(p) ==
  SelectSeq(ExtractMain(pages[p].html),
            LAMBDA e : ~IsDataCellBlock(e) /\ e.kind # "toc")

\* C3: for every non-canonical page and every cell merged from it, each
\* marker that referenced the cell's original id references, in the merged
\* content, exactly the new id written into the cell's definition.
C3_MarkerFollowsDefinition ==
  Completed("main") =>
    \A p \in {1, 3} :
      /\ Len(mains[p]) = Len(KeptInput(p))
      /\ \A k \in 1..Len(mains[p]) :
           \A i \in 1..Len(allDefineBlocks) :
             (allDefineBlocks[i].page = p
              /\ KeptInput(p)[k].kind = "cell"
              /\ KeptInput(p)[k].id = allDefineBlocks[i].orig)
             => mains[p][k].id = allDefineBlocks[i].text.id

HasLoaderCell(p) ==
  \E i \in 1..Len(ExtractedIds(p)) : ExtractedIds(p)[i] = LOADER_ID

\* C5: for a non-canonical page that contains the loader cell bf5e5f37, the
\* merged artifact holds no cell definition pushed for that page's loader
\* cell and no marker for bf5e5f37 in that page's content section.
C5_LoaderRemoved ==
  \A p \in {1, 3} :
    HasLoaderCell(p) =>
      /\ Completed("defines") =>
           \A i \in 1..Len(allDefineBlocks) :
             ~(allDefineBlocks[i].page = p /\ allDefineBlocks[i].orig = LOADER_ID)
      /\ Completed("main") => ~HasMarker(mains[p], LOADER_ID)

Malformed(p) ==
  Present(p) /\ \E i \in 1..Len(fs[p].script.cells) : ~fs[p].script.cells[i].closed

\* C6: a run over a page whose script has a define({ that is never closed
\* ends with a nonzero exit code and writes no output.
C6_MalformedIsFatal ==
  (\E p \in 1..3 : Malformed(p)) => (writes = <<>> /\ exitCode # 0)

\* C7: the output is written at most once, only after extraction, merge,
\* asset inlining, linking and secret injection have completed, and a run
\* that ends in a fatal failure has written nothing.
C7_WriteOnceAtEnd ==
  /\ Len(writes) <= 1
  /\ writes # <<>> =>
       /\ \A st \in {"read", "remap", "regs", "defines", "script", "main",
                     "base", "inline", "extract", "bundle", "reassemble"} :
            Completed(st)
       /\ linkResult = "ok"
       /\ writes[1].script = bundledScript
       /\ \E i \in 1..Len(writes[1].headScripts) :
            writes[1].headScripts[i].kind = "token"
       /\ pc = "done"
  /\ exitCode = 1 => writes = <<>>

C7_Witness == pc = "done" /\ Len(writes) = 1 /\ exitCode = 0

\* C8: with the credential unset or empty, the run never tests, reads or
\* writes a file and ends with exit code 1.
C8_NoTokenNoFileAccess ==
  envToken = NoToken =>
    /\ statted = <<>>
    /\ reads = <<>>
    /\ writes = <<>>
    /\ pc \in {"args", "token", "exited"}
    /\ pc = "exited" => exitCode = 1

C8_Witness ==
  /\ envToken = NoToken
  /\ argv
  /\ \A p \in 1..3 : Present(p)
  /\ pc = "exited"

\* C9: when one of the three required pages is absent, the run reads and
\* parses no page, writes nothing and ends with exit code 1, whichever
\* page is missing.
C9_MissingPageIsFatal ==
  (\E p \in 1..3 : ~Present(p)) =>
    /\ reads = <<>>
    /\ pages = <<>>
    /\ writes = <<>>
    /\ pc \in {"args", "token", "pages", "exited"}
    /\ pc = "exited" => exitCode = 1

C9_Witness ==
  /\ argv
  /\ envToken # NoToken
  /\ Present(1)
  /\ Present(2)
  /\ ~Present(3)
  /\ pc = "exited"
  /\ statted = PAGE_FILES

\* C10: when build() fails the run ends with exit code 1 and the output is
\* never written; when it succeeds it has produced the one flattened script.
C10_LinkFailureIsFatal ==
  /\ linkResult = "failed" =>
       (pc = "exited" /\ exitCode = 1 /\ writes = <<>> /\ bundledScript = NoHtml)
  /\ linkResult = "ok" => bundledScript # NoHtml

C10_Witness == linkResult = "failed" /\ pc = "exited" /\ Completed("inline")

\* The script handed to build(), once build() has returned or thrown.
LinkInput == IF linkResult = "ok" THEN bundledScript.source ELSE html.script

IsUnresolvable(imp) ==
  ~IsRemoteOrEmbedded(imp.spec) /\ imp.spec.target \notin DOMAIN disk.modules

\* Some import of the merged script or of a module the linker loaded, static
\* or deferred, is neither remote/embedded nor an existing local file.
ReachesUnresolvable(script) ==
  \/ \E i \in 1..Len(StdinImports(script)) : IsUnresolvable(StdinImports(script)[i])
  \/ \E m \in LoadedModules(script) :
       \E i \in 1..Len(disk.modules[m]) : IsUnresolvable(disk.modules[m][i])

\* C11: when the linker reaches an import, static or deferred, that is
\* neither remote/embedded nor resolvable to an existing local file, the
\* run ends with exit code 1 and writes no output.
C11_UnresolvableImportIsFatal ==
  (linkResult # "none" /\ ReachesUnresolvable(LinkInput)) =>
    (linkResult = "failed" /\ exitCode = 1 /\ writes = <<>>)

\* every registerFile call of the input, in page order then source order
AllCalls == fs[1].script.regs \o fs[2].script.regs \o fs[3].script.regs

Registered(name) == \E i \in 1..Len(AllCalls) : AllCalls[i].name = name

FirstIndex(name) ==
  CHOOSE i \in 1..Len(AllCalls) :
    AllCalls[i].name = name /\ \A j \in 1..(i - 1) : AllCalls[j].name # name

\* C12: for every asset name registered anywhere in the three pages, the
\* merged script holds exactly one registration of that name, and it is
\* the first call met in the order index, movement-report, closing-remarks.
C12_FirstRegistrationWins ==
  Completed("script") =>
    \A k \in 1..Len(AllCalls) :
      LET name == AllCalls[k].name
          kept == {i \in 1..Len(mergedScript.regs) : mergedScript.regs[i].name = name}
      IN  /\ Cardinality(kept) = 1
          /\ \A i \in kept : mergedScript.regs[i] = AllCalls[FirstIndex(name)]

\* A name registered twice in index and again, with other metadata, in a
\* later page.
C12_Witness ==
  /\ Completed("script")
  /\ \E n \in AssetNames :
       /\ Len(SelectSeq(fs[1].script.regs, LAMBDA r : r.name = n)) = 2
       /\ \E i \in 1..Len(fs[2].script.regs) : fs[2].script.regs[i].name = n
       /\ \E i \in 1..Len(fs[3].script.regs) : fs[3].script.regs[i].name = n

\* C13: the registrations of the merged script are ordered by the first
\* appearance of their names, scanning index, movement-report,
\* closing-remarks and each page's calls in source order; no registered
\* name is left out.
C13_FirstAppearanceOrder ==
  Completed("script") =>
    /\ \A k \in 1..Len(AllCalls) :
         \E i \in 1..Len(mergedScript.regs) : mergedScript.regs[i].name = AllCalls[k].name
    /\ \A i, j \in 1..Len(mergedScript.regs) :
         i < j => /\ Registered(mergedScript.regs[i].name)
                  /\ Registered(mergedScript.regs[j].name)
                  /\ FirstIndex(mergedScript.regs[i].name)
                       < FirstIndex(mergedScript.regs[j].name)

\* Two names, the one first met in index registered after the other in
\* movement-report.
C13_Witness ==
  /\ Completed("script")
  /\ Len(mergedScript.regs) = 2
  /\ Len(fs[1].script.regs) = 1
  /\ Len(fs[2].script.regs) = 2
  /\ fs[2].script.regs[2].name = fs[1].script.regs[1].name
  /\ fs[2].script.regs[1].name # fs[1].script.regs[1].name

\* the registerFile calls of the script after Step 13
InlinedRegs ==
  IF Completed("reassemble") THEN bundledScript.source.regs ELSE html.script.regs

\* C14: inlining the already inlined script again, with the same files on
\* disk, returns it unchanged, and a payload that was already embedded in
\* the input is never encoded again.
C14_InliningIdempotent ==
  Completed("inline") =>
    /\ InlineData(InlinedRegs, disk.data) = InlinedRegs
    /\ \A i \in 1..Len(mergedScript.regs) :
         mergedScript.regs[i].path.kind = "data" =>
           InlinedRegs[i] = mergedScript.regs[i]

\* A script with a reference inlined by this run next to a payload that
\* was embedded before it and a reference that could not be read.
C14_Witness ==
  /\ Completed("inline")
  /\ \E i, j, k \in 1..Len(mergedScript.regs) :
       /\ mergedScript.regs[i].path.kind = "local"
       /\ InlinedRegs[i].path.kind = "data"
       /\ mergedScript.regs[j].path.kind = "data"
       /\ mergedScript.regs[k].path.kind = "local"
       /\ InlinedRegs[k].path.kind = "local"

Unreadable(r) == PathMatches(r.path) /\ r.path.file \notin disk.data

\* C15: a reference to a local data file that cannot be read is left as it
\* was, every readable local reference is still embedded, and the run goes
\* on: it never ends inside Step 13, and when it ends with the output
\* written the exit code is 0 and the output holds the inlined script.
C15_UnreadableIsNotFatal ==
  /\ Completed("inline") =>
       /\ Len(InlinedRegs) = Len(mergedScript.regs)
       /\ \A i \in 1..Len(mergedScript.regs) :
            /\ Unreadable(mergedScript.regs[i]) =>
                 InlinedRegs[i] = mergedScript.regs[i]
            /\ (mergedScript.regs[i].path.kind = "local"
                /\ ~Unreadable(mergedScript.regs[i])) =>
                 /\ InlinedRegs[i].path.kind = "data"
                 /\ InlinedRegs[i].name = mergedScript.regs[i].name
  /\ (pc = "exited" /\ Completed("icon")) => Completed("inline")
  /\ pc = "done" =>
       /\ exitCode = 0
       /\ Len(writes) = 1
       /\ writes[1].script.source.regs = InlinedRegs

\* A finished run whose output keeps an unreadable reference next to an
\* embedded one.
C15_Witness ==
  /\ pc = "done"
  /\ exitCode = 0
  /\ \E i, j \in 1..Len(mergedScript.regs) :
       /\ mergedScript.regs[i].path.kind = "local"
       /\ Unreadable(mergedScript.regs[i])
       /\ writes[1].script.source.regs[i] = mergedScript.regs[i]
       /\ mergedScript.regs[j].path.kind = "local"
       /\ writes[1].script.source.regs[j].path.kind = "data"

SidePages == {1, 3}

\* C16: every entry of a side page's remap table keeps the base and adds
\* the page's offset (100 for index, 200 for closing-remarks) to the
\* numeric suffix, an absent suffix counting as none: a1b2c3d4-1 of index
\* becomes a1b2c3d4-101; and no definition or marker of that page keeps
\* an id whose suffix is below the offsets.
C16_RemapAddsOffset ==
  /\ Completed("remap") =>
       /\ \A p \in SidePages : \A i \in 1..Len(remapTables[p]) :
            LET e == remapTables[p][i]
            IN  /\ e.val.base = e.key.base
                /\ e.val.suf # <<>>
                /\ e.val.suf[1] # 0
                /\ ParseInt(e.val.suf) =
                     ParseInt(e.key.suf) + (IF p = 1 THEN 100 ELSE 200)
       /\ MapHas(remapTables[1], A1) =>
            MapGet(remapTables[1], A1) = Id("a1b2c3d4", <<1, 0, 1>>)
       /\ MapHas(remapTables[1], A0) =>
            MapGet(remapTables[1], A0) = Id("a1b2c3d4", <<1, 0, 0>>)
       /\ MapHas(remapTables[3], A1) =>
            MapGet(remapTables[3], A1) = Id("a1b2c3d4", <<2, 0, 1>>)
  /\ Completed("defines") =>
       \A p \in SidePages : \A i \in 1..Len(remapTables[p]) :
         ParseInt(remapTables[p][i].key.suf) < 100 =>
           \A k \in 1..Len(allDefineBlocks) :
             allDefineBlocks[k].page = p =>
               allDefineBlocks[k].text.id # remapTables[p][i].key
  /\ Completed("main") =>
       \A p \in SidePages : \A i \in 1..Len(remapTables[p]) :
         ParseInt(remapTables[p][i].key.suf) < 100 =>
           ~HasMarker(mains[p], remapTables[p][i].key)

\* The index page defines a1b2c3d4-1 and the merge has emitted its
\* definition and its marker as a1b2c3d4-101.
C16_Witness ==
  /\ Completed("main")
  /\ MapHas(remapTables[1], A1)
  /\ \E k \in 1..Len(allDefineBlocks) :
       /\ allDefineBlocks[k].page = 1
       /\ allDefineBlocks[k].orig = A1
       /\ allDefineBlocks[k].text.id = Id("a1b2c3d4", <<1, 0, 1>>)
  /\ HasMarker(mains[1], Id("a1b2c3d4", <<1, 0, 1>>))
  /\ MapHas(remapTables[3], A0)

IdsOf(p) == {ExtractedIds(p)[i] : i \in 1..Len(ExtractedIds(p))}

\* C17: the remap table of index and of closing-remarks has exactly the
\* page's extracted ids other than bf5e5f37 as keys, whether or not the
\* canonical page has the id too, and every entry changes the id.
C17_EveryIdRemapped ==
  Completed("remap") =>
    \A p \in SidePages :
      /\ {remapTables[p][i].key : i \in 1..Len(remapTables[p])}
           = IdsOf(p) \ {LOADER_ID}
      /\ \A i \in 1..Len(remapTables[p]) :
           remapTables[p][i].val # remapTables[p][i].key
      /\ ~MapHas(remapTables[p], LOADER_ID)

\* A side page with the loader cell and a cell whose id no other page
\* defines; the latter has an entry.
C17_Witness ==
  /\ Completed("remap")
  /\ \E p \in SidePages :
       /\ LOADER_ID \in IdsOf(p)
       /\ \E id \in IdsOf(p) \ {LOADER_ID} :
            /\ \A q \in (1..3) \ {p} : id \notin IdsOf(q)
            /\ MapHas(remapTables[p], id)

\* the define block of page p an emitted block was made from
InputOf(b) ==
  LET ds == ParseDefineBlocks(ExtractScript(pages[b.page].html))
  IN  ds[CHOOSE i \in 1..Len(ds) : ds[i].id = b.orig].block

\* outputs, body and returned object of a block: everything but its id
Content(c) == [c EXCEPT !.id = PATCH_ID]

\* C18: the name-output patch touches only the canonical page's copy of
\* cell f12777a6: a cell f12777a6 of index or closing-remarks is emitted
\* with the outputs, body and returned object it had.
C18_PatchOnlyCanonical ==
  Completed("defines") =>
    \A k \in 1..Len(allDefineBlocks) :
      (allDefineBlocks[k].page # 2 /\ allDefineBlocks[k].orig = PATCH_ID) =>
        Content(allDefineBlocks[k].text) = Content(InputOf(allDefineBlocks[k]))

AlreadyPatched(c) ==
  /\ \E i \in 1..Len(c.outputs) : c.outputs[i] = "name"
  /\ c.nameDecls >= 1
  /\ c.hasReturn
  /\ \E i \in 1..Len(c.ret) : c.ret[i] = "name"

\* C19: the canonical page's cell f12777a6, when it already lists "name"
\* in its outputs, computes name in its body and returns name, is emitted
\* unchanged.
C19_PatchIsNoOpWhenPatched ==
  Completed("defines") =>
    \A k \in 1..Len(allDefineBlocks) :
      (/\ allDefineBlocks[k].page = 2
       /\ allDefineBlocks[k].orig = PATCH_ID
       /\ AlreadyPatched(InputOf(allDefineBlocks[k]))) =>
        allDefineBlocks[k].text = InputOf(allDefineBlocks[k])

\* <<page, id>> of the define blocks of page p that Step 6 does not skip
RECURSIVE KeptCellsFrom(_, _)
KeptCellsFrom(p, i) ==
  IF i > Len(ExtractedIds(p)) THEN <<>>
  ELSE (IF ExtractedIds(p)[i] = LOADER_ID /\ p # 2 THEN <<>>
        ELSE <<<<p, ExtractedIds(p)[i]>>>>) \o KeptCellsFrom(p, i + 1)

SectionAt(h, title) == CHOOSE i \in 1..Len(h) : h[i] = Section(title)

Kinds(h) == [i \in 1..Len(h) |-> h[i].kind]

\* C20: the merged cell block lists the cells of index, movement-report
\* and closing-remarks in this order, each page's cells in source order,
\* and the merged content is the content of index, of movement-report and
\* of closing-remarks in the same order, whatever the pages contain.
C20_NarrativeOrder ==
  /\ Completed("read") => \A p \in 1..3 : pages[p].name = PAGE_FILES[p]
  /\ Completed("defines") =>
       [k \in 1..Len(allDefineBlocks) |->
          <<allDefineBlocks[k].page, allDefineBlocks[k].orig>>]
         = KeptCellsFrom(1, 1) \o KeptCellsFrom(2, 1) \o KeptCellsFrom(3, 1)
  /\ Completed("script") =>
       mergedScript.cells =
         [k \in 1..Len(allDefineBlocks) |-> allDefineBlocks[k].text]
  /\ Completed("main") =>
       LET h == MergedMain
           a == SectionAt(h, "Executive Summary")
           b == SectionAt(h, "Movement Insights")
           c == SectionAt(h, "Closing Remarks")
       IN  /\ Cardinality({i \in 1..Len(h) : h[i].kind = "section"}) = 3
           /\ a = 1 /\ a < b /\ b < c
           /\ h[b - 1] = PageBreak /\ h[c - 1] = PageBreak
           /\ Kinds(SubSeq(h, a + 1, b - 2)) = Kinds(KeptInput(1))
           /\ SubSeq(h, a + 1, b - 2) = mains[1]
           /\ SubSeq(h, b + 1, c - 2) = ExtractMain(pages[2].html)
           /\ Kinds(SubSeq(h, c + 1, Len(h))) = Kinds(KeptInput(3))
           /\ SubSeq(h, c + 1, Len(h)) = mains[3]

\* Three pages with different contents, merged: index contributes two
\* cells, movement-report one and closing-remarks none.
C20_Witness ==
  /\ Completed("main")
  /\ Len(BlocksOf(1)) = 2
  /\ Len(BlocksOf(2)) = 1
  /\ Len(BlocksOf(3)) = 0
  /\ Len(mains[1]) = 2
  /\ Len(mains[2]) = 1
  /\ mains[3] = <<>>

TokenScriptsOf(h) ==
  SelectSeq(h.headScripts, LAMBDA e : e.kind = "token")

\* C21: every written artifact holds exactly one script binding
\* window.__MAPBOX_TOKEN, its value is the environment's MAPBOX_TOKEN, and
\* it is the first script after <head>, before the scripts the canonical
\* document had and before the module script.
C21_OneTokenFirstInHead ==
  \A w \in 1..Len(writes) :
    /\ Len(TokenScriptsOf(writes[w])) = 1
    /\ writes[w].headScripts[1] = TokenScript(envToken)
    /\ writes[w].headScripts =
         <<TokenScript(envToken)>> \o pages[2].html.headScripts

\* C30: when the canonical document has no module script, the base
\* document has none after merging either; the linker is never invoked,
\* nothing is written, and the run ends at Step 14 with exit code 1.
C30_NoModuleScriptIsFatal ==
  (Completed("read") /\ ~pages[2].html.hasModuleScript) =>
    /\ Completed("base") => ~html.hasModuleScript
    /\ linkResult = "none"
    /\ bundledScript = NoHtml
    /\ writes = <<>>
    /\ pc \notin {"bundle", "reassemble", "write", "done"}
    /\ pc = "exited" => (exitCode = 1 /\ Completed("inline"))

\* The run has ended at Step 14 although index and closing-remarks carry
\* module scripts with cells.
C30_Witness ==
  /\ pc = "exited"
  /\ exitCode = 1
  /\ Completed("inline")
  /\ ~pages[2].html.hasModuleScript
  /\ pages[1].html.hasModuleScript
  /\ Len(allDefineBlocks) = 2
  /\ writes = <<>>

DynamicLocal(imp) ==
  imp.kind = "dynamic" /\ ~IsRemoteOrEmbedded(imp.spec)
    /\ imp.spec.target \in DOMAIN disk.modules

\* C22: in every .js module the linker loaded, a deferred import of a
\* remote or embedded specifier stands unchanged, and a deferred import of
\* an existing local file is replaced by a resolved reference whose
\* binding is a static import of the same specifier put at the top of
\* the module.
C22_DeferredImportsRewritten ==
  linkResult = "ok" =>
    \A m \in DOMAIN bundledScript.linked :
      LET src == disk.modules[m]
          out == bundledScript.linked[m]
          k == Len(out) - Len(src)
      IN  /\ k = Cardinality({i \in 1..Len(src) : DynamicLocal(src[i])})
          /\ \A j \in 1..k : out[j].kind = "static"
          /\ \A i \in 1..Len(src) :
               /\ (src[i].kind = "dynamic" /\ src[i].spec.scheme \in {"https", "data"})
                    => out[k + i] = src[i]
               /\ DynamicLocal(src[i]) =>
                    /\ out[k + i].kind = "resolved"
                    /\ Cardinality({j \in 1..k :
                         out[j].id = out[k + i].id
                         /\ out[j].spec = src[i].spec}) = 1
                    /\ Cardinality({j \in 1..k : out[j].id = out[k + i].id}) = 1

\* A loaded module with a deferred remote import next to a deferred import
\* of an existing local file.
C22_Witness ==
  /\ linkResult = "ok"
  /\ \E m \in DOMAIN bundledScript.linked :
       \E i, j \in 1..Len(disk.modules[m]) :
         /\ disk.modules[m][i].kind = "dynamic"
         /\ disk.modules[m][i].spec.scheme = "https"
         /\ DynamicLocal(disk.modules[m][j])

\* C23: after Step 13 every reference whose path is an absolute remote URL
\* and every reference that was already an embedded payload is exactly as
\* it was in the merged script; only references to local data files are
\* replaced.
C23_RemoteAndEmbeddedUntouched ==
  Completed("inline") =>
    \A i \in 1..Len(mergedScript.regs) :
      /\ mergedScript.regs[i].path.kind \in {"remote", "data"} =>
           InlinedRegs[i] = mergedScript.regs[i]
      /\ InlinedRegs[i] # mergedScript.regs[i] =>
           mergedScript.regs[i].path.kind = "local"

\* the check that ended a run which exited before the pages were read:
\* "args" prints the usage line, "token" the missing-credential error
FailedCheck ==
  IF trace = <<>> THEN "args"
  ELSE IF trace = <<"args">> THEN "token"
  ELSE "pages"

\* C24: the credential check is the first check: with MAPBOX_TOKEN unset
\* no argument validation, document lookup or read is done, and the run
\* ends with the missing-credential error whether or not the arguments or
\* the documents are missing too.
C24_TokenCheckedFirst ==
  envToken = NoToken =>
    /\ ~Completed("args")
    /\ statted = <<>>
    /\ reads = <<>>
    /\ pc = "exited" => (exitCode = 1 /\ FailedCheck = "token")

\* C25: the stages run in the order extraction, collision resolution,
\* patching, merge assembly, asset inlining, static linking, secret
\* injection: once an operation of a later stage has been invoked, no
\* operation of an earlier stage is invoked again.
C25_StagesStrictlyDownstream ==
  \A i, j \in 1..Len(Calls) :
    i < j => Calls[i].stage <= Calls[j].stage

\* C26: every emitted cell other than f12777a6 is its extracted block with
\* only the id rewritten, to the new id its page's remap table gives it;
\* a cell of the canonical page other than f12777a6 is emitted identical
\* to its extracted block.
C26_OtherCellsOnlyRenamed ==
  Completed("defines") =>
    \A k \in 1..Len(allDefineBlocks) :
      LET b == allDefineBlocks[k]
      IN  b.orig # PATCH_ID =>
            /\ b.text =
                 [InputOf(b) EXCEPT !.id =
                    IF MapHas(remapTables[b.page], b.orig)
                    THEN MapGet(remapTables[b.page], b.orig)
                    ELSE b.orig]
            /\ b.page = 2 => b.text = InputOf(b)

\* A merge that patched f12777a6 and emitted another cell of the
\* canonical page and a renamed cell of index.
C26_Witness ==
  /\ Completed("defines")
  /\ \E i, j, k \in 1..Len(allDefineBlocks) :
       /\ allDefineBlocks[i].orig = PATCH_ID
       /\ allDefineBlocks[i].text # InputOf(allDefineBlocks[i])
       /\ allDefineBlocks[j].page = 2
       /\ allDefineBlocks[j].orig = A0
       /\ allDefineBlocks[k].page = 1
       /\ allDefineBlocks[k].orig = A0
       /\ allDefineBlocks[k].text.id = A100

LinesOf(p) ==
  {fs[p].script.imports[i] : i \in 1..Len(fs[p].script.imports)}

\* C27: the import block of the merged script is the canonical page's
\* import lines in their order; an import line that only index or
\* closing-remarks has is not emitted.
C27_CanonicalImportsOnly ==
  Completed("script") =>
    /\ mergedScript.imports = fs[2].script.imports
    /\ \A p \in SidePages : \A l \in LinesOf(p) \ LinesOf(2) :
         \A i \in 1..Len(mergedScript.imports) : mergedScript.imports[i] # l

\* A canonical page with two import lines and an index page with an
\* import line the canonical page lacks.
C27_Witness ==
  /\ Completed("script")
  /\ Len(fs[2].script.imports) = 2
  /\ fs[2].script.imports[1] # fs[2].script.imports[2]
  /\ LinesOf(1) \ LinesOf(2) # {}
  /\ mergedScript.imports = fs[2].script.imports

WithoutLoaderBlock(h) == SelectSeq(h, LAMBDA e : ~IsDataCellBlock(e))

Tocs(h) == Len(SelectSeq(h, LAMBDA e : e.kind = "toc"))

\* C28: the canonical content tree is merged as it was read: no marker
\* rewritten, its loader placeholder and its table of contents kept; the
\* index tree loses its loader placeholder but keeps its table of
\* contents; only the closing-remarks tree has its table of contents
\* removed.
C28_CleanupPerDocument ==
  Completed("main") =>
    /\ mains[2] = fs[2].main
    /\ Kinds(mains[1]) = Kinds(WithoutLoaderBlock(fs[1].main))
    /\ Tocs(mains[1]) = Tocs(fs[1].main)
    /\ Kinds(mains[3]) = Kinds(SelectSeq(WithoutLoaderBlock(fs[3].main),
                                         LAMBDA e : e.kind # "toc"))
    /\ Tocs(mains[3]) = 0

\* All three trees have a table of contents and a loader placeholder, and
\* the canonical tree has a marker whose id the index table rewrites.
C28_Witness ==
  /\ Completed("main")
  /\ \A p \in 1..3 : Tocs(fs[p].main) = 1 /\ HasMarker(fs[p].main, LOADER_ID)
  /\ HasMarker(fs[2].main, A0)
  /\ MapHas(remapTables[1], A0)
  /\ Tocs(mains[1]) = 1
  /\ Tocs(mains[2]) = 1
  /\ Tocs(mains[3]) = 0

\* C29: within the remap table of index and of closing-remarks, distinct
\* original ids get distinct new ids, also for suffixes written with
\* leading zeros.
C29_RemapInjective ==
  Completed("remap") =>
    \A p \in SidePages :
      \A i, j \in 1..Len(remapTables[p]) :
        remapTables[p][i].key # remapTables[p][j].key =>
          remapTables[p][i].val # remapTables[p][j].val
====
